---- MODULE Spec2Model ----
(***************************************************************************)
(* Model of src/mobius_strip.py: the MobiusStrip class (parameter grid,    *)
(* coordinate grid, surface_area, edge_length, plot) and the script entry  *)
(* point.                                                                   *)
(*                                                                          *)
(* float64 values are modelled as fixed-point integers in units of 10^-6   *)
(* (Scale): R = 1.0 is 1000000.  Every arithmetic step of the source is    *)
(* carried out on these integers and rounded to the nearest unit, so a     *)
(* modelled result agrees with the float64 result up to the accumulated    *)
(* rounding of that resolution.  Arrays are functions on 0..n-1; a 2D      *)
(* array a is indexed a[i][j] with i the row (axis 0) and j the column     *)
(* (axis 1).                                                                *)
(***************************************************************************)
EXTENDS Integers, Sequences, FiniteSets, TLC

VARIABLES pc, R, w, n, u, v, x, y, z, areaRet, edgeRet, areaCalls, edgeCalls, plotCalls

vars == <<pc, R, w, n, u, v, x, y, z, areaRet, edgeRet, areaCalls, edgeCalls, plotCalls>>

(***************************************************************************)
(* Fixed-point arithmetic standing for float64 arithmetic.                 *)
(***************************************************************************)
Scale == 1000000

Abs(a) == IF a < 0 THEN 0 - a ELSE a

Sgn(a) == IF a < 0 THEN 0 - 1 ELSE IF a > 0 THEN 1 ELSE 0

\* a / d for an integer d > 0, rounded to the nearest unit.
DivRound(a, d) == Sgn(a) * ((Abs(a) + (d \div 2)) \div d)

\* The product of two non-negative fixed-point numbers of scale h * h.
MulNat(a, b, h) ==
    LET ah == a \div h
        al == a % h
        bh == b \div h
        bl == b % h
        t  == ah * bl + al * bh + ((al * bl) \div h)
    IN  ah * bh + ((t + (h \div 2)) \div h)

\* a * b on values in units of 10^-6.
MulFix(a, b) == Sgn(a) * Sgn(b) * MulNat(Abs(a), Abs(b), 1000)

\* a * b on values in units of 10^-8 (used inside cos and sin).
MulFix8(a, b) == Sgn(a) * Sgn(b) * MulNat(Abs(a), Abs(b), 10000)

RECURSIVE SqrtBits(_, _, _)
SqrtBits(s, r, b) ==
    IF b = 0 THEN r
    ELSE LET c == r + b
         IN  IF c <= 46340 /\ c * c <= s
             THEN SqrtBits(s, c, b \div 2)
             ELSE SqrtBits(s, r, b \div 2)

\* np.sqrt of a non-negative integer, rounded to the nearest integer.
ISqrt(s) ==
    LET r == SqrtBits(s, 0, 32768)
    IN  IF s - r * r > r THEN r + 1 ELSE r

Max3(a, b, c) ==
    LET m == IF a > b THEN a ELSE b
    IN  IF m > c THEN m ELSE c

\* np.sqrt(a**2 + b**2 + c**2): the squares are formed after dividing by the
\* smallest f that keeps them in range, a relative rounding below 10^-4.
Norm3(a, b, c) ==
    LET m == Max3(Abs(a), Abs(b), Abs(c))
        f == (m \div 26000) + 1
        a1 == DivRound(a, f)
        b1 == DivRound(b, f)
        c1 == DivRound(c, f)
    IN  f * ISqrt(a1 * a1 + b1 * b1 + c1 * c1)

\* 2 * np.pi, in units of 10^-6.
TwoPi == 6283185

\* pi, in units of 10^-8 (the argument reduction of cos and sin).
Pi8 == 314159265

One8 == 100000000

\* cos on [0, pi/4], argument and result in units of 10^-8.
CosSeries(a) ==
    LET a2 == MulFix8(a, a)
        t5 == One8 - DivRound(a2, 90)
        t4 == One8 - DivRound(MulFix8(a2, t5), 56)
        t3 == One8 - DivRound(MulFix8(a2, t4), 30)
        t2 == One8 - DivRound(MulFix8(a2, t3), 12)
    IN  One8 - DivRound(MulFix8(a2, t2), 2)

\* sin on [0, pi/4], argument and result in units of 10^-8.
SinSeries(a) ==
    LET a2 == MulFix8(a, a)
        t4 == One8 - DivRound(a2, 72)
        t3 == One8 - DivRound(MulFix8(a2, t4), 42)
        t2 == One8 - DivRound(MulFix8(a2, t3), 20)
        t1 == One8 - DivRound(MulFix8(a2, t2), 6)
    IN  MulFix8(a, t1)

\* cos on [0, pi/2] in units of 10^-8.
CosQuad(a) ==
    IF 4 * a <= Pi8 THEN CosSeries(a) ELSE SinSeries(DivRound(Pi8, 2) - a)

\* sin on [0, pi/2] in units of 10^-8.
SinQuad(a) ==
    IF 4 * a <= Pi8 THEN SinSeries(a) ELSE CosSeries(DivRound(Pi8, 2) - a)

\* np.cos of an angle 0 <= a <= 2 pi + 1 given in units of 10^-6.
Cos(a) ==
    LET a8 == (a * 100) % (2 * Pi8)
        h  == DivRound(Pi8, 2)
        c8 == IF a8 <= h THEN CosQuad(a8)
              ELSE IF a8 <= Pi8 THEN 0 - CosQuad(Pi8 - a8)
              ELSE IF a8 <= Pi8 + h THEN 0 - CosQuad(a8 - Pi8)
              ELSE CosQuad(2 * Pi8 - a8)
    IN  DivRound(c8, 100)

\* np.sin of an angle 0 <= a <= 2 pi + 1 given in units of 10^-6.
Sin(a) ==
    LET a8 == (a * 100) % (2 * Pi8)
        h  == DivRound(Pi8, 2)
        s8 == IF a8 <= h THEN SinQuad(a8)
              ELSE IF a8 <= Pi8 THEN SinQuad(Pi8 - a8)
              ELSE IF a8 <= Pi8 + h THEN 0 - SinQuad(a8 - Pi8)
              ELSE 0 - SinQuad(2 * Pi8 - a8)
    IN  DivRound(s8, 100)

(***************************************************************************)
(* Array helpers (numpy).                                                   *)
(***************************************************************************)
\* Sampling that stops one step short of stop, as np.arange does.
linspace_short(start, stop, num) ==
    [j \in 0..(num - 2) |-> start + DivRound(j * (stop - start), num - 1)]

\* np.linspace(start, stop, num) for num >= 0: num samples, both ends included.
linspace(start, stop, num) ==
    [j \in 0..(num - 1) |->
        IF j = 0 THEN start
        ELSE IF j = num - 1 THEN stop
        ELSE start + DivRound(j * (stop - start), num - 1)]

\* np.meshgrid(a, b) with the default indexing: two arrays of shape
\* (len(b), len(a)); the first repeats a along every row, the second repeats
\* b along every column.
meshgrid(a, b) ==
    << [i \in DOMAIN b |-> [j \in DOMAIN a |-> a[j]]],
       [i \in DOMAIN b |-> [j \in DOMAIN a |-> b[i]]] >>

\* np.gradient taken along the other axis.
gradient_other_axis(a, axis) ==
    [i \in DOMAIN a |-> [j \in DOMAIN a[i] |->
        LET k    == IF axis = 1 THEN i ELSE j
            last == IF axis = 1 THEN Cardinality(DOMAIN a) - 1
                    ELSE Cardinality(DOMAIN a[i]) - 1
            at(m) == IF axis = 1 THEN a[m][j] ELSE a[i][m]
        IN  IF k = 0 THEN at(1) - at(0)
            ELSE IF k = last THEN at(last) - at(last - 1)
            ELSE DivRound(at(k + 1) - at(k - 1), 2)]]

\* np.gradient(a, axis=axis) of a 2D array with unit spacing: central
\* differences inside, one-sided differences at the first and last index.
gradient(a, axis) ==
    [i \in DOMAIN a |-> [j \in DOMAIN a[i] |->
        LET k    == IF axis = 0 THEN i ELSE j
            last == IF axis = 0 THEN Cardinality(DOMAIN a) - 1
                    ELSE Cardinality(DOMAIN a[i]) - 1
            at(m) == IF axis = 0 THEN a[m][j] ELSE a[i][m]
        IN  IF k = 0 THEN at(1) - at(0)
            ELSE IF k = last THEN at(last) - at(last - 1)
            ELSE DivRound(at(k + 1) - at(k - 1), 2)]]

\* np.diff(a) of a 1D array.
diff(a) == [i \in 0..(Cardinality(DOMAIN a) - 2) |-> a[i + 1] - a[i]]

\* a[lo] + ... + a[hi], the range halved at each step.
RECURSIVE SumRange(_, _, _)
SumRange(a, lo, hi) ==
    IF lo > hi THEN 0
    ELSE IF lo = hi THEN a[lo]
    ELSE SumRange(a, lo, (lo + hi) \div 2) + SumRange(a, ((lo + hi) \div 2) + 1, hi)

\* np.sum of a 1D array.
Sum1(a) == SumRange(a, 0, Cardinality(DOMAIN a) - 1)

\* np.sum of a 2D array.
Sum2(a) == Sum1([i \in DOMAIN a |-> Sum1(a[i])])

(***************************************************************************)
(* class MobiusStrip.  An instance is the record of its fields; self is    *)
(* the instance held in the variables.                                      *)
(***************************************************************************)
\* _compute_coordinates: the embedding, elementwise on the parameter grids.
compute_coordinates(uu, vv, RR) ==
    LET r(i, j) == RR + MulFix(vv[i][j], Cos(DivRound(uu[i][j], 2)))
    IN  << [i \in DOMAIN uu |-> [j \in DOMAIN uu[i] |-> MulFix(r(i, j), Cos(uu[i][j]))]],
           [i \in DOMAIN uu |-> [j \in DOMAIN uu[i] |-> MulFix(r(i, j), Sin(uu[i][j]))]],
           [i \in DOMAIN uu |-> [j \in DOMAIN uu[i] |->
                MulFix(vv[i][j], Sin(DivRound(uu[i][j], 2)))]] >>

\* __init__ for nn >= 0: the fields of MobiusStrip(RR, ww, nn).
MobiusStrip(RR, ww, nn) ==
    LET g == meshgrid(linspace(0, TwoPi, nn),
                      linspace(0 - DivRound(ww, 2), DivRound(ww, 2), nn))
        fields(c) == [R |-> RR, w |-> ww, n |-> nn, u |-> g[1], v |-> g[2],
                      x |-> c[1], y |-> c[2], z |-> c[3]]
    IN  fields(compute_coordinates(g[1], g[2], RR))

self == [R |-> R, w |-> w, n |-> n, u |-> u, v |-> v, x |-> x, y |-> y, z |-> z]

\* The partial derivatives surface_area takes of the coordinate grids.
xu(s) == gradient(s.x, 1)
xv(s) == gradient(s.x, 0)
yu(s) == gradient(s.y, 1)
yv(s) == gradient(s.y, 0)
zu(s) == gradient(s.z, 1)
zv(s) == gradient(s.z, 0)

\* dA of surface_area: the magnitude of the cross product, pointwise.
dA(s) ==
    [i \in DOMAIN s.x |-> [j \in DOMAIN s.x[i] |->
        LET cross_x == MulFix(yu(s)[i][j], zv(s)[i][j]) - MulFix(zu(s)[i][j], yv(s)[i][j])
            cross_y == MulFix(zu(s)[i][j], xv(s)[i][j]) - MulFix(xu(s)[i][j], zv(s)[i][j])
            cross_z == MulFix(xu(s)[i][j], yv(s)[i][j]) - MulFix(yu(s)[i][j], xv(s)[i][j])
        IN  Norm3(cross_x, cross_y, cross_z)]]

None == [kind |-> "none", val |-> 0]
Raised == [kind |-> "error", val |-> 0]
Value(a) == [kind |-> "value", val |-> a]

\* surface_area() with du and dv taken by floor division.
surface_area_floordiv(s) ==
    IF s.n < 2 THEN Raised
    ELSE LET du == (TwoPi \div (Scale * (s.n - 1))) * Scale
             dv == (s.w \div (Scale * (s.n - 1))) * Scale
         IN  Value(MulFix(MulFix(Sum2(dA(s)), du), dv))

\* surface_area(): the returned value, or the exception it raises.  n = 1
\* divides by zero in du; n = 0 makes np.gradient raise on an empty axis.
surface_area(s) ==
    IF s.n < 2 THEN Raised
    ELSE LET du == DivRound(TwoPi, s.n - 1)
             dv == DivRound(s.w, s.n - 1)
         IN  Value(MulFix(MulFix(Sum2(dA(s)), du), dv))

\* The chord lengths edge_length sums, for a boundary sampled at the angles eu.
chords(s, eu) ==
    LET ev == DivRound(s.w, 2)
        ex == [j \in DOMAIN eu |->
                 MulFix(s.R + MulFix(ev, Cos(DivRound(eu[j], 2))), Cos(eu[j]))]
        ey == [j \in DOMAIN eu |->
                 MulFix(s.R + MulFix(ev, Cos(DivRound(eu[j], 2))), Sin(eu[j]))]
        ez == [j \in DOMAIN eu |-> MulFix(ev, Sin(DivRound(eu[j], 2)))]
        dx == diff(ex)
        dy == diff(ey)
        dz == diff(ez)
    IN  [i \in DOMAIN dx |-> Norm3(dx[i], dy[i], dz[i])]

\* edge_length() over a closed polygon: the first sample is appended again.
edge_length_closed(s) ==
    LET eu == linspace(0, TwoPi, s.n)
        ec == [j \in 0..s.n |-> IF j = s.n THEN eu[0] ELSE eu[j]]
    IN  Value(2 * Sum1(chords(s, IF s.n < 2 THEN eu ELSE ec)))

\* edge_length() with the default half-width in place of self.w / 2.
edge_length_default_w(s) ==
    Value(2 * Sum1(chords([s EXCEPT !.w = Scale \div 2], linspace(0, TwoPi, s.n))))

\* edge_length(): it resamples the boundary from R, w and n.
edge_length(s) == Value(2 * Sum1(chords(s, linspace(0, TwoPi, s.n))))

(***************************************************************************)
(* Bounds and inputs.                                                       *)
(***************************************************************************)
MaxN == 5
MaxCalls == 2
RVals == {Scale, 2 * Scale}
WVals == {Scale \div 2, Scale}
NVals == (0 - 1)..MaxN

\* The call of the script entry point: MobiusStrip(R=1.0, w=0.5, n=200).
MainArgs == <<Scale, Scale \div 2, 200>>

Blank ==
    /\ pc = "start"
    /\ u = <<>> /\ v = <<>> /\ x = <<>> /\ y = <<>> /\ z = <<>>
    /\ areaRet = None /\ edgeRet = None
    /\ areaCalls = 0 /\ edgeCalls = 0 /\ plotCalls = 0

\* A caller about to construct MobiusStrip(R, w, n).
Init == R \in RVals /\ w \in WVals /\ n \in NVals /\ Blank

\* MobiusStrip(R, w, n): np.linspace raises for a negative n and no instance
\* comes to exist; otherwise the instance is live with its grids computed.
Construct ==
    /\ pc = "start"
    /\ IF n < 0
       THEN /\ pc' = "raised"
            /\ UNCHANGED <<u, v, x, y, z>>
       ELSE LET store(m) == /\ pc' = "live"
                            /\ u' = m.u /\ v' = m.v
                            /\ x' = m.x /\ y' = m.y /\ z' = m.z
            IN  store(MobiusStrip(R, w, n))
    /\ UNCHANGED <<R, w, n, areaRet, edgeRet, areaCalls, edgeCalls, plotCalls>>

\* surface_area() that stores its cell width dv back into self.w.
SurfaceAreaInPlace ==
    /\ pc = "live" /\ areaCalls < MaxCalls
    /\ areaRet' = surface_area(self)
    /\ areaCalls' = areaCalls + 1
    /\ w' = IF n < 2 THEN w ELSE DivRound(w, n - 1)
    /\ UNCHANGED <<pc, R, n, u, v, x, y, z, edgeRet, edgeCalls, plotCalls>>

SurfaceArea ==
    /\ pc = "live" /\ areaCalls < MaxCalls
    /\ areaRet' = surface_area(self)
    /\ areaCalls' = areaCalls + 1
    /\ UNCHANGED <<pc, R, w, n, u, v, x, y, z, edgeRet, edgeCalls, plotCalls>>

\* edge_length() that fixes v by writing w / 2 into self.v in place.
EdgeLengthInPlace ==
    /\ pc = "live" /\ edgeCalls < MaxCalls
    /\ edgeRet' = edge_length(self)
    /\ edgeCalls' = edgeCalls + 1
    /\ v' = [i \in DOMAIN v |-> [j \in DOMAIN v[i] |-> DivRound(w, 2)]]
    /\ UNCHANGED <<pc, R, w, n, u, x, y, z, areaRet, areaCalls, plotCalls>>

EdgeLength ==
    /\ pc = "live" /\ edgeCalls < MaxCalls
    /\ edgeRet' = edge_length(self)
    /\ edgeCalls' = edgeCalls + 1
    /\ UNCHANGED <<pc, R, w, n, u, v, x, y, z, areaRet, areaCalls, plotCalls>>

\* plot(): hands x, y, z to matplotlib; nothing of the instance is written.
Plot ==
    /\ pc = "live" /\ plotCalls < MaxCalls
    /\ plotCalls' = plotCalls + 1
    /\ UNCHANGED <<pc, R, w, n, u, v, x, y, z, areaRet, edgeRet, areaCalls, edgeCalls>>

Next == Construct \/ SurfaceArea \/ EdgeLength \/ Plot

Spec == Init /\ [][Next]_vars

(***************************************************************************)
(* The script entry point: construct, print surface_area(), print          *)
(* edge_length(), plot(); an exception ends the script.                     *)
(***************************************************************************)
InitMain ==
    /\ \/ R = MainArgs[1] /\ w = MainArgs[2] /\ n = MainArgs[3]
       \/ R \in RVals /\ w \in WVals /\ n \in NVals
    /\ Blank

MainArea == areaCalls = 0 /\ SurfaceArea

MainEdge == areaCalls = 1 /\ areaRet.kind = "value" /\ edgeCalls = 0 /\ EdgeLength

MainPlot == edgeCalls = 1 /\ plotCalls = 0 /\ Plot

NextMain == Construct \/ MainArea \/ MainEdge \/ MainPlot

SpecMain == InitMain /\ [][NextMain]_vars

(***************************************************************************)
(* The claims.  The quantities below restate what a claim says in terms of *)
(* R, w, n and the indices alone, apart from the operators of the class.   *)
(***************************************************************************)
KVals == {2, 3}

\* a and b agree within a relative error of 1/per (and 10 units of rounding).
Close(a, b, per) == Abs(a - b) <= (Abs(b) \div per) + 10

\* The j-th of n angles evenly spaced over [0, 2 pi], both ends included.
Ang(j) ==
    IF j = 0 THEN 0
    ELSE IF j = n - 1 THEN TwoPi
    ELSE DivRound(j * TwoPi, n - 1)

\* The i-th of n offsets evenly spaced over [-w/2, w/2], both ends included.
Off(i) ==
    IF i = 0 THEN 0 - DivRound(w, 2)
    ELSE IF i = n - 1 THEN DivRound(w, 2)
    ELSE (0 - DivRound(w, 2)) + DivRound(i * (2 * DivRound(w, 2)), n - 1)

\* The embedding of the point at offset o and angle a.
EmbX(o, a) == MulFix(R + MulFix(o, Cos(DivRound(a, 2))), Cos(a))
EmbY(o, a) == MulFix(R + MulFix(o, Cos(DivRound(a, 2))), Sin(a))
EmbZ(o, a) == MulFix(o, Sin(DivRound(a, 2)))

\* The chord from boundary point P[i] to P[i+1], the points taken at v = w/2.
Chord(i) ==
    LET o == DivRound(w, 2)
    IN  Norm3(EmbX(o, Ang(i + 1)) - EmbX(o, Ang(i)),
              EmbY(o, Ang(i + 1)) - EmbY(o, Ang(i)),
              EmbZ(o, Ang(i + 1)) - EmbZ(o, Ang(i)))

RECURSIVE ChordSum(_)
ChordSum(k) == IF k < 0 THEN 0 ELSE Chord(k) + ChordSum(k - 1)

\* The difference quotient of a at (i, j) along the column index j.
AlongColumns(a, i, j) ==
    IF j = 0 THEN a[i][1] - a[i][0]
    ELSE IF j = n - 1 THEN a[i][n - 1] - a[i][n - 2]
    ELSE DivRound(a[i][j + 1] - a[i][j - 1], 2)

\* The difference quotient of a at (i, j) along the row index i.
AlongRows(a, i, j) ==
    IF i = 0 THEN a[1][j] - a[0][j]
    ELSE IF i = n - 1 THEN a[n - 1][j] - a[n - 2][j]
    ELSE DivRound(a[i + 1][j] - a[i - 1][j], 2)

\* C1: with n fixed, surface_area() of MobiusStrip(k*R, k*w, n) is k^2 times
\* surface_area() of MobiusStrip(R, w, n), within a relative error of 1/100.
C1_AreaScalesByKSquared ==
    (pc = "live" /\ n >= 2 /\ areaRet.kind = "value") =>
        \A k \in KVals :
            Close(surface_area(MobiusStrip(k * R, k * w, n)).val,
                  k * k * areaRet.val, 100)

C3_SmallNRejected ==
    n < 2 => (pc # "live" /\ areaRet.kind = "none" /\ edgeRet.kind = "none")

\* C4: for MobiusStrip(R=1.0, w=0.5, n=200), surface_area() is in [3.0, 3.6]
\* and edge_length() is in [6.3, 6.5].
C4_LiteralScenario ==
    (R = MainArgs[1] /\ w = MainArgs[2] /\ n = MainArgs[3]) =>
        /\ areaRet.kind = "value" =>
              (3000000 <= areaRet.val /\ areaRet.val <= 3600000)
        /\ edgeRet.kind = "value" =>
              (6300000 <= edgeRet.val /\ edgeRet.val <= 6500000)

\* C5: no call on a live instance changes R, w, n, u, v, x, y or z, and a
\* repeated call of surface_area() or of edge_length() returns what the
\* call before it returned.
C5_CallsLeaveInstanceAlone ==
    [][pc = "live" =>
         /\ UNCHANGED <<R, w, n, u, v, x, y, z>>
         /\ (areaCalls > 0 /\ areaCalls' > areaCalls) => areaRet' = areaRet
         /\ (edgeCalls > 0 /\ edgeCalls' > edgeCalls) => edgeRet' = edgeRet]_vars

C5_Witness ==
    /\ pc = "live" /\ n >= 2
    /\ areaCalls = 2 /\ edgeCalls = 2 /\ plotCalls >= 1
    /\ areaRet.kind = "value" /\ edgeRet.kind = "value"

\* C6: after a successful construction with resolution n, each of x, y, z
\* has shape (n, n), the shape of u and v.
C6_ShapeInvariant ==
    pc = "live" =>
        \A g \in {u, v, x, y, z} :
            /\ DOMAIN g = 0..(n - 1)
            /\ \A i \in DOMAIN g : DOMAIN g[i] = 0..(n - 1)

C6_Witness == pc = "live" /\ n >= 2 /\ Cardinality(DOMAIN x) = n

\* C7: with n fixed, edge_length() of MobiusStrip(k*R, k*w, n) is k times
\* edge_length() of MobiusStrip(R, w, n), within a relative error of 1/1000.
C7_EdgeScalesByK ==
    (pc = "live" /\ n >= 2 /\ edgeRet.kind = "value") =>
        \A k \in KVals :
            Close(edge_length(MobiusStrip(k * R, k * w, n)).val,
                  k * edgeRet.val, 1000)

C7_Witness ==
    pc = "live" /\ n >= 3 /\ w = Scale /\ edgeRet.kind = "value" /\ edgeRet.val > 0

\* C8: edge_length() is 2 times the sum of the n-1 chords |P[i+1] - P[i]|,
\* i = 0..n-2, of the boundary points at v = w/2 and n angles evenly spaced
\* over [0, 2 pi]; there is no closing chord, and an instance stripped of
\* its grids (R, w and n alone) gives the same value.
C8_EdgeIsTwiceOpenChordSum ==
    (pc = "live" /\ edgeRet.kind = "value") =>
        /\ edgeRet.val = 2 * ChordSum(n - 2)
        /\ edgeRet = edge_length([R |-> R, w |-> w, n |-> n])

C8_Witness == pc = "live" /\ n >= 4 /\ edgeRet.kind = "value" /\ edgeCalls = 1

\* C9: u[i][j] is the j-th angle and v[i][j] the i-th offset, and
\* surface_area() takes xu, yu, zu along the columns and xv, yv, zv along the
\* rows, central inside and one-sided at the first and last index.
C9_AxisConvention ==
    pc = "live" =>
        \A i \in 0..(n - 1), j \in 0..(n - 1) :
            /\ u[i][j] = Ang(j)
            /\ v[i][j] = Off(i)
            /\ n >= 2 =>
                  /\ xu(self)[i][j] = AlongColumns(x, i, j)
                  /\ yu(self)[i][j] = AlongColumns(y, i, j)
                  /\ zu(self)[i][j] = AlongColumns(z, i, j)
                  /\ xv(self)[i][j] = AlongRows(x, i, j)
                  /\ yv(self)[i][j] = AlongRows(y, i, j)
                  /\ zv(self)[i][j] = AlongRows(z, i, j)

C9_Witness == pc = "live" /\ n >= 3 /\ areaRet.kind = "value" /\ areaCalls >= 1

\* C10: in every state of a live instance, x, y, z are the embedding of the
\* parameter grid of the instance's current R, w and n.
C10_GridsMatchParameters ==
    pc = "live" =>
        /\ DOMAIN x = 0..(n - 1)
        /\ \A i \in 0..(n - 1) :
              /\ DOMAIN x[i] = 0..(n - 1)
              /\ \A j \in 0..(n - 1) :
                    /\ x[i][j] = EmbX(Off(i), Ang(j))
                    /\ y[i][j] = EmbY(Off(i), Ang(j))
                    /\ z[i][j] = EmbZ(Off(i), Ang(j))

C10_Witness ==
    pc = "live" /\ n >= 2 /\ areaCalls >= 1 /\ edgeCalls >= 1 /\ plotCalls >= 1
====
